---- MODULE Spec2Model ----
(***************************************************************************)
(* Model of src/i.py: the Client constructor (api credentials fallback,    *)
(* storage backend selection, transfer semaphores) and the bounded Cache.  *)
(***************************************************************************)
EXTENDS Integers, Sequences, FiniteSets, TLC

VARIABLES
    capacity,       \* Cache.capacity
    store,          \* Cache.store: a dict, as the sequence of its items in insertion order
    last,           \* the last completed Cache call: operation, arguments, result, store before it
    inserted,       \* history: per key, the value of its latest put while the key is not evicted
    threads,        \* per thread: its position inside __setitem__ and its locals
    store0,         \* the store when the concurrent callers start
    max_concurrent_transmissions,   \* Client.max_concurrent_transmissions
    semaphores,     \* the value of Client.save_file_semaphore and Client.get_file_semaphore
    tasks,          \* per transfer task: what it waits for or holds
    args,           \* the arguments of Client.__init__
    client          \* the attributes Client.__init__ has set (built = FALSE before it ran)

vars == <<capacity, store, last, inserted, threads, store0,
          max_concurrent_transmissions, semaphores, tasks, args, client>>

cacheVars  == <<capacity, store, last, inserted>>
cacheVarsButStore == <<capacity, last, inserted>>
threadVars == <<threads, store0>>
semVars    == <<max_concurrent_transmissions, semaphores, tasks>>
clientVars == <<args, client>>

(***************************************************************************)
(* Bounds                                                                  *)
(***************************************************************************)
MaxKey == 4
MaxCapacity == 3
MaxNegCapacity == 3
MaxUnboundedLen == 2
NumThreads == 2
NumTasks == 4
MaxTransmissions == 2

\* Client.MAX_CONCURRENT_TRANSMISSIONS
MAX_CONCURRENT_TRANSMISSIONS == 1

Keys == 1..MaxKey
Values == {"v1", "v2"}
Capacities == (0 - MaxNegCapacity)..MaxCapacity
Threads == 1..NumThreads
Tasks == 1..NumTasks

\* Python's None, as a cache value or a lookup result
None == "None"
\* history marker: the key has no live put
NotInserted == "NotInserted"

(***************************************************************************)
(* A Python dict keeps its items in insertion order                        *)
(***************************************************************************)
DictKeys(d) == {d[i].key : i \in 1..Len(d)}

DictContains(d, key) == key \in DictKeys(d)

IndexOf(d, key) == CHOOSE i \in 1..Len(d) : d[i].key = key

\* del d[key], for a key that is present
DictDel(d, key) ==
    LET i == IndexOf(d, key)
    IN  SubSeq(d, 1, i - 1) \o SubSeq(d, i + 1, Len(d))

\* d[key] = value: a present key keeps its position, a new key goes last
DictSet(d, key, value) ==
    IF DictContains(d, key)
    THEN [d EXCEPT ![IndexOf(d, key)] = [key |-> key, value |-> value]]
    ELSE Append(d, [key |-> key, value |-> value])

\* d.get(key, default)
DictGet(d, key, default) ==
    IF DictContains(d, key) THEN d[IndexOf(d, key)].value ELSE default

\* next(iter(d)), for a dict that is not empty
FirstKey(d) == d[1].key

\* range(n) has n rounds, none when n <= 0
RangeLen(n) == IF n > 0 THEN n ELSE 0

(***************************************************************************)
(* class Cache                                                             *)
(***************************************************************************)
\* a lookup that refreshes the key, as a least-recently-used cache would
Cache__getitem__Touch(d, key) ==
    [ret |-> DictGet(d, key, None),
     store |-> IF DictContains(d, key)
               THEN Append(DictDel(d, key), [key |-> key, value |-> DictGet(d, key, None)])
               ELSE d]

\* Cache.__getitem__: the returned value and the store it leaves
Cache__getitem__(d, key) == [ret |-> DictGet(d, key, None), store |-> d]

\* an eviction loop one round short
EvictCountShort(cap) == RangeLen(cap \div 2)

\* the number of rounds of the eviction loop
EvictCount(cap) == RangeLen(cap \div 2 + 1)

\* the eviction loop: n times del self.store[next(iter(self.store))]
RECURSIVE EvictLoop(_, _)
EvictLoop(d, n) ==
    IF n = 0 THEN [store |-> d, raised |-> "none"]
    ELSE IF Len(d) = 0 THEN [store |-> d, raised |-> "StopIteration"]
    ELSE EvictLoop(DictDel(d, FirstKey(d)), n - 1)

\* a put that overwrites in place
RemoveNever(d, key) == d

\* the first part of __setitem__: remove the key when present
RemoveIfPresent(d, key) == IF DictContains(d, key) THEN DictDel(d, key) ELSE d

\* the overflow test of __setitem__
Overflows(d, cap) == Len(d) > cap

\* Cache.__setitem__: the store it leaves and the exception it raised, if any
Cache__setitem__(cap, d, key, value) ==
    LET s1 == RemoveIfPresent(d, key)
        s2 == DictSet(s1, key, value)
    IN  IF Overflows(s2, cap)
        THEN EvictLoop(s2, EvictCount(cap))
        ELSE [store |-> s2, raised |-> "none"]

\* the record of a Cache whose constructor has returned and that served no call yet
NoCall == [op |-> "init", key |-> 0, value |-> None, ret |-> None,
           raised |-> "none", before |-> <<>>]

\* Cache.__init__
CacheInit(cap) ==
    /\ capacity = cap
    /\ store = <<>>
    /\ last = NoCall
    /\ inserted = [k \in Keys |-> NotInserted]

\* a cache of negative capacity grows without limit: its growth is cut at MaxUnboundedLen
Put(key, value) ==
    LET r == Cache__setitem__(capacity, store, key, value)
    IN  /\ capacity >= 0 \/ DictContains(store, key) \/ Len(store) < MaxUnboundedLen
        /\ store' = r.store
        /\ last' = [op |-> "put", key |-> key, value |-> value, ret |-> None,
                    raised |-> r.raised, before |-> store]
        /\ inserted' = [k \in Keys |->
                          IF k = key THEN value
                          ELSE IF DictContains(r.store, k) THEN inserted[k]
                          ELSE NotInserted]
        /\ UNCHANGED <<capacity, threadVars, semVars, clientVars>>

Get(key) ==
    LET r == Cache__getitem__(store, key)
    IN  /\ store' = r.store
        /\ last' = [op |-> "get", key |-> key, value |-> None, ret |-> r.ret,
                    raised |-> "none", before |-> store]
        /\ inserted' = [k \in Keys |->
                          IF DictContains(r.store, k) \/ ~DictContains(store, k)
                          THEN inserted[k] ELSE NotInserted]
        /\ UNCHANGED <<capacity, threadVars, semVars, clientVars>>

DefaultSemaphores ==
    [save_file_semaphore |-> MAX_CONCURRENT_TRANSMISSIONS,
     get_file_semaphore |-> MAX_CONCURRENT_TRANSMISSIONS]

IdleThreads == [t \in Threads |-> [pc |-> "idle", key |-> 0, value |-> None, rounds |-> 0,
                                   victim |-> 0]]
NoArgs == [built |-> FALSE]

OtherInit ==
    /\ threads = IdleThreads
    /\ store0 = <<>>
    /\ max_concurrent_transmissions = MAX_CONCURRENT_TRANSMISSIONS
    /\ semaphores = DefaultSemaphores
    /\ tasks = [t \in Tasks |-> [op |-> "idle", sem |-> "none"]]
    /\ args = NoArgs
    /\ client = [built |-> FALSE]

Init ==
    /\ \E cap \in Capacities : CacheInit(cap)
    /\ OtherInit

Next ==
    \/ \E key \in Keys, value \in Values : Put(key, value)
    \/ \E key \in Keys : Get(key)

Spec == Init /\ [][Next]_vars

(***************************************************************************)
(* Cache.__setitem__ called from several threads (handlers run on the      *)
(* client's ThreadPoolExecutor): the class takes no lock, so the threads   *)
(* interleave between its statements.  Each thread makes one put.          *)
(***************************************************************************)
\* the store after the puts of keys 1..n, in that order, into a cache of capacity >= n
Prefilled(n) == [i \in 1..n |-> [key |-> i, value |-> "v1"]]

ThreadsInit ==
    /\ \E cap \in 1..MaxCapacity :
        /\ capacity = cap
        /\ \E n \in 0..cap : store0 = Prefilled(n)
    /\ store = store0
    /\ last = NoCall
    /\ inserted = [k \in Keys |-> NotInserted]
    /\ threads = IdleThreads
    /\ max_concurrent_transmissions = MAX_CONCURRENT_TRANSMISSIONS
    /\ semaphores = DefaultSemaphores
    /\ tasks = [t \in Tasks |-> [op |-> "idle", sem |-> "none"]]
    /\ args = NoArgs
    /\ client = [built |-> FALSE]

\* the call: cache[key] = value
Call(t, key, value) ==
    /\ threads[t].pc = "idle"
    /\ threads' = [threads EXCEPT ![t].pc = "test_in", ![t].key = key, ![t].value = value]
    /\ UNCHANGED <<store, store0, cacheVarsButStore, semVars, clientVars>>

\* if key in self.store:
TestIn(t) ==
    /\ threads[t].pc = "test_in"
    /\ threads' = [threads EXCEPT ![t].pc =
                     IF DictContains(store, threads[t].key) THEN "del_key" ELSE "set"]
    /\ UNCHANGED <<store, store0, cacheVarsButStore, semVars, clientVars>>

\* del self.store[key]: KeyError when another thread removed the key meanwhile
DelKey(t) ==
    /\ threads[t].pc = "del_key"
    /\ IF DictContains(store, threads[t].key)
       THEN /\ store' = DictDel(store, threads[t].key)
            /\ threads' = [threads EXCEPT ![t].pc = "set"]
       ELSE /\ store' = store
            /\ threads' = [threads EXCEPT ![t].pc = "KeyError"]
    /\ UNCHANGED <<store0, cacheVarsButStore, semVars, clientVars>>

\* self.store[key] = value
SetKey(t) ==
    /\ threads[t].pc = "set"
    /\ store' = DictSet(store, threads[t].key, threads[t].value)
    /\ threads' = [threads EXCEPT ![t].pc = "test_len"]
    /\ UNCHANGED <<store0, cacheVarsButStore, semVars, clientVars>>

\* if len(self.store) > self.capacity: for _ in range(self.capacity // 2 + 1):
TestLen(t) ==
    /\ threads[t].pc = "test_len"
    /\ threads' = IF Overflows(store, capacity)
                  THEN [threads EXCEPT ![t].pc = "loop", ![t].rounds = EvictCount(capacity)]
                  ELSE [threads EXCEPT ![t].pc = "done"]
    /\ UNCHANGED <<store, store0, cacheVarsButStore, semVars, clientVars>>

\* one round of the loop, its first half: next(iter(self.store))
LoopNext(t) ==
    /\ threads[t].pc = "loop"
    /\ threads' = IF threads[t].rounds = 0
                  THEN [threads EXCEPT ![t].pc = "done"]
                  ELSE IF Len(store) = 0
                  THEN [threads EXCEPT ![t].pc = "StopIteration"]
                  ELSE [threads EXCEPT ![t].pc = "del_victim", ![t].victim = FirstKey(store)]
    /\ UNCHANGED <<store, store0, cacheVarsButStore, semVars, clientVars>>

\* its second half: del self.store[...]: KeyError when another thread removed that key
DelVictim(t) ==
    /\ threads[t].pc = "del_victim"
    /\ IF DictContains(store, threads[t].victim)
       THEN /\ store' = DictDel(store, threads[t].victim)
            /\ threads' = [threads EXCEPT ![t].pc = "loop", ![t].rounds = @ - 1]
       ELSE /\ store' = store
            /\ threads' = [threads EXCEPT ![t].pc = "KeyError"]
    /\ UNCHANGED <<store0, cacheVarsButStore, semVars, clientVars>>

ThreadsNext ==
    \E t \in Threads :
        \/ \E key \in Keys, value \in Values : Call(t, key, value)
        \/ TestIn(t)
        \/ DelKey(t)
        \/ SetKey(t)
        \/ TestLen(t)
        \/ LoopNext(t)
        \/ DelVictim(t)

SpecThreads == ThreadsInit /\ [][ThreadsNext]_vars

(***************************************************************************)
(* The transfer semaphores of the Client                                   *)
(***************************************************************************)
\* both semaphores starting with one permit too many on the download side
SemaphoreInitOff(mct) == [save_file_semaphore |-> mct, get_file_semaphore |-> mct + 1]

\* Client.__init__: two asyncio.Semaphore objects, each of max_concurrent_transmissions
SemaphoreInit(mct) == [save_file_semaphore |-> mct, get_file_semaphore |-> mct]

SemaphoreNames == {"save_file_semaphore", "get_file_semaphore"}

Waiting(name) == [op |-> "wait", sem |-> name]
Holding(name) == [op |-> "hold", sem |-> name]
Idle == [op |-> "idle", sem |-> "none"]

SemInit ==
    /\ \E mct \in 1..MaxTransmissions :
        /\ max_concurrent_transmissions = mct
        /\ semaphores = SemaphoreInit(mct)
    /\ tasks = [t \in Tasks |-> Idle]
    /\ CacheInit(MaxCapacity)
    /\ threads = IdleThreads
    /\ store0 = <<>>
    /\ args = NoArgs
    /\ client = [built |-> FALSE]

\* a transfer enters "async with semaphore": it takes a permit, or waits when none is left
Acquire(t, name) ==
    /\ tasks[t] = Idle
    /\ IF semaphores[name] > 0
       THEN /\ semaphores' = [semaphores EXCEPT ![name] = @ - 1]
            /\ tasks' = [tasks EXCEPT ![t] = Holding(name)]
       ELSE /\ semaphores' = semaphores
            /\ tasks' = [tasks EXCEPT ![t] = Waiting(name)]
    /\ UNCHANGED <<max_concurrent_transmissions, cacheVars, threadVars, clientVars>>

\* a waiting transfer is woken once a permit is free
Wake(t, name) ==
    /\ tasks[t] = Waiting(name)
    /\ semaphores[name] > 0
    /\ semaphores' = [semaphores EXCEPT ![name] = @ - 1]
    /\ tasks' = [tasks EXCEPT ![t] = Holding(name)]
    /\ UNCHANGED <<max_concurrent_transmissions, cacheVars, threadVars, clientVars>>

\* the transfer leaves the "async with" block, by completion or by failure
Release(t, name) ==
    /\ tasks[t] = Holding(name)
    /\ semaphores' = [semaphores EXCEPT ![name] = @ + 1]
    /\ tasks' = [tasks EXCEPT ![t] = Idle]
    /\ UNCHANGED <<max_concurrent_transmissions, cacheVars, threadVars, clientVars>>

\* a waiting transfer is cancelled: it leaves without a permit
CancelWait(t, name) ==
    /\ tasks[t] = Waiting(name)
    /\ tasks' = [tasks EXCEPT ![t] = Idle]
    /\ UNCHANGED <<semaphores, max_concurrent_transmissions, cacheVars, threadVars, clientVars>>

SemNext ==
    \E t \in Tasks, name \in SemaphoreNames :
        \/ Acquire(t, name)
        \/ Wake(t, name)
        \/ Release(t, name)
        \/ CancelWait(t, name)

SpecSemaphores == SemInit /\ [][SemNext]_vars

(***************************************************************************)
(* Client.__init__: api credentials and the storage backend                *)
(***************************************************************************)
\* Python values
PyNone == [t |-> "none"]
PyBool(b) == [t |-> "bool", b |-> b]
PyInt(i) == [t |-> "int", i |-> i]
PyStr(str) == [t |-> "str", s |-> str]
\* a dict, by its number of entries
PyDict(n) == [t |-> "dict", n |-> n]
\* an instance of a class without __bool__ and __len__
PyObject(class) == [t |-> "object", class |-> class]

\* bool(x)
Truthy(x) ==
    CASE x.t = "none" -> FALSE
      [] x.t = "bool" -> x.b
      [] x.t = "int" -> x.i # 0
      [] x.t = "str" -> x.s # ""
      [] x.t = "dict" -> x.n # 0
      [] x.t = "object" -> TRUE

\* the strings of the model that int() parses, with their values
DecimalValue == [str \in {"0", "7"} |-> IF str = "0" THEN 0 ELSE 7]

\* int(x): ValueError for a string that is no number
IntOf(x) ==
    CASE x.t = "int" -> [raised |-> "none", val |-> PyInt(x.i)]
      [] x.t = "str" /\ x.s \in DOMAIN DecimalValue ->
            [raised |-> "none", val |-> PyInt(DecimalValue[x.s])]
      [] OTHER -> [raised |-> "ValueError", val |-> PyNone]

PlaceholderApiId == 123456
PlaceholderApiHash == "0123456789abcdef0123456789abcdef"

\* the fallback taken only when both credentials are missing
NeedsPlaceholderBoth(bot_token, api_id, api_hash) ==
    Truthy(bot_token) /\ (api_id = PyNone /\ api_hash = PyNone)

\* if bot_token and (self.api_id is None or self.api_hash is None):
NeedsPlaceholder(bot_token, api_id, api_hash) ==
    Truthy(bot_token) /\ (api_id = PyNone \/ api_hash = PyNone)

\* self.api_id, self.api_hash after the first statements of __init__
Credentials(a) ==
    LET conv == IF Truthy(a.api_id) THEN IntOf(a.api_id)
                ELSE [raised |-> "none", val |-> PyNone]
    IN  IF conv.raised # "none"
        THEN [raised |-> conv.raised, api_id |-> PyNone, api_hash |-> PyNone]
        ELSE IF NeedsPlaceholder(a.bot_token, conv.val, a.api_hash)
        THEN [raised |-> "none", api_id |-> PyInt(PlaceholderApiId),
              api_hash |-> PyStr(PlaceholderApiHash)]
        ELSE [raised |-> "none", api_id |-> conv.val, api_hash |-> a.api_hash]

\* module level: MONGO_AVAIL is True when "import pymongo" raised nothing
MONGO_AVAIL(pymongo_importable) == pymongo_importable

\* a storage backend: its class, the session string it is seeded with, and whether
\* choosing it logged a warning
Backend(class, seed, warned) == [class |-> class, seed |-> seed, warned |-> warned]

\* the chain with the in_memory test ahead of the session_string test
SelectStorageSwapped(a) ==
    IF Truthy(a.storage) THEN Backend("given", PyNone, FALSE)
    ELSE IF Truthy(a.in_memory) THEN Backend("MemoryStorage", PyNone, FALSE)
    ELSE IF Truthy(a.session_string) THEN Backend("MemoryStorage", a.session_string, FALSE)
    ELSE IF Truthy(a.mongodb)
         THEN IF ~MONGO_AVAIL(a.pymongo_importable)
              THEN Backend("MemoryStorage", PyNone, TRUE)
              ELSE Backend("MongoStorage", PyNone, FALSE)
    ELSE Backend("FileStorage", PyNone, FALSE)

\* the if/elif chain that sets self.storage
SelectStorage(a) ==
    IF Truthy(a.storage) THEN Backend("given", PyNone, FALSE)
    ELSE IF Truthy(a.session_string) THEN Backend("MemoryStorage", a.session_string, FALSE)
    ELSE IF Truthy(a.in_memory) THEN Backend("MemoryStorage", PyNone, FALSE)
    ELSE IF Truthy(a.mongodb)
         THEN IF ~MONGO_AVAIL(a.pymongo_importable)
              THEN Backend("MemoryStorage", PyNone, TRUE)
              ELSE Backend("MongoStorage", PyNone, FALSE)
    ELSE Backend("FileStorage", PyNone, FALSE)

ApiIds == {PyNone, PyInt(0), PyInt(7), PyStr(""), PyStr("0"), PyStr("7"), PyStr("x")}
ApiHashes == {PyNone, PyStr(""), PyStr("h")}
BotTokens == {PyNone, PyStr(""), PyStr("t")}
Storages == {PyNone, PyObject("Storage")}
SessionStrings == {PyNone, PyStr(""), PyStr("s")}
InMemories == {PyNone, PyBool(FALSE), PyBool(TRUE)}
Mongodbs == {PyNone, PyDict(0), PyDict(1)}

ClientArgs ==
    [built : {TRUE}, api_id : ApiIds, api_hash : ApiHashes, bot_token : BotTokens,
     storage : Storages, session_string : SessionStrings, in_memory : InMemories,
     mongodb : Mongodbs, pymongo_importable : BOOLEAN]

ClientInit ==
    /\ args \in ClientArgs
    /\ client = [built |-> FALSE]
    /\ max_concurrent_transmissions = MAX_CONCURRENT_TRANSMISSIONS
    /\ semaphores = DefaultSemaphores
    /\ tasks = [t \in Tasks |-> Idle]
    /\ CacheInit(MaxCapacity)
    /\ threads = IdleThreads
    /\ store0 = <<>>

\* Client.__init__ runs: it returns with the attributes set, or int(api_id) raises
Construct ==
    /\ args.built
    /\ ~client.built
    /\ "raised" \notin DOMAIN client
    /\ LET cred == Credentials(args)
       IN  client' = IF cred.raised # "none"
                     THEN [built |-> FALSE, raised |-> cred.raised]
                     ELSE [built |-> TRUE, api_id |-> cred.api_id,
                           api_hash |-> cred.api_hash, bot_token |-> args.bot_token,
                           storage |-> SelectStorage(args)]
    /\ UNCHANGED <<args, cacheVars, threadVars, semVars>>

ClientNext == Construct

SpecClient == ClientInit /\ [][ClientNext]_vars

(***************************************************************************)
(* Claims about the Cache, one caller at a time                            *)
(***************************************************************************)
\* the items a put leaves before the overflow test, by the contract:
\* the other items in their order, then the put item
OrderAfterInsert ==
    LET Other(e) == e.key # last.key
    IN  SelectSeq(last.before, Other) \o <<[key |-> last.key, value |-> last.value]>>

\* the keys the last put removed from the items it had after inserting
EvictedKeys == DictKeys(OrderAfterInsert) \ DictKeys(store)

\* C1: after every put returns, the number of stored entries is at most the capacity.
C1_SizeWithinCapacity == last.op = "put" => Len(store) <= capacity

\* C2: a put evicts only when the insertion makes the entry count exceed the capacity
\* C, and then the evicted keys are exactly the C/2 + 1 oldest keys in insertion order
\* (a key's position being that of its latest put); every other entry is kept with
\* its value and relative order.
C2_EvictsOldestHalf ==
    last.op = "put" =>
        LET order == OrderAfterInsert
            n == capacity \div 2 + 1
            Kept(e) == e.key \notin EvictedKeys
        IN  /\ last.raised = "none"
            /\ EvictedKeys # {} => Len(order) > capacity
            /\ Len(order) > capacity =>
                   /\ n <= Len(order)
                   /\ EvictedKeys = {order[i].key : i \in 1..n}
            /\ store = SelectSeq(order, Kept)

C2_Witness ==
    /\ last.op = "put"
    /\ capacity = 3
    /\ Len(last.before) = 3
    /\ Cardinality(EvictedKeys) = 2
    /\ Len(store) = 2

\* C3: after put(k, v) returns, get(k) returns v, at once and after any further puts
\* of other keys, up to the put whose overflow eviction removes k.
C3_GetReturnsInserted ==
    \A k \in Keys :
        inserted[k] # NotInserted => Cache__getitem__(store, k).ret = inserted[k]

\* C4: a put of a key already in the cache (a cache holding at most capacity entries)
\* replaces its value and moves the key to the most recent position: the entry count
\* does not change, nothing is evicted, and the key is last in eviction order.
C4_ReinsertMovesToEnd ==
    (/\ last.op = "put"
     /\ DictContains(last.before, last.key)
     /\ Len(last.before) <= capacity) =>
        LET Other(e) == e.key # last.key
        IN  /\ Len(store) = Len(last.before)
            /\ DictKeys(store) = DictKeys(last.before)
            /\ store[Len(store)] = [key |-> last.key, value |-> last.value]
            /\ SelectSeq(store, Other) = SelectSeq(last.before, Other)

C4_Witness ==
    /\ last.op = "put"
    /\ Len(last.before) = capacity
    /\ Len(last.before) >= 2
    /\ last.before[1].key = last.key
    /\ last.before[1].value # last.value
    /\ store[Len(store)].key = last.key

\* C5: a Cache whose capacity is zero or negative is a fatal CacheInvariantViolation
\* error, when it is built and when it is used: it never stores entries beyond its
\* capacity and never drops every entry without raising.
C5_NonPositiveCapacityIsFatal ==
    capacity <= 0 =>
        /\ last.raised = "CacheInvariantViolation"
        /\ Len(store) <= capacity

\* C8: get has no effect on the cache: entries, values and insertion order are
\* unchanged, and get of an absent key returns None without inserting or raising.
C8_GetHasNoEffect ==
    last.op = "get" =>
        /\ store = last.before
        /\ last.raised = "none"
        /\ last.ret = IF \E i \in 1..Len(last.before) : last.before[i].key = last.key
                      THEN (CHOOSE e \in {last.before[i] : i \in 1..Len(last.before)} :
                                e.key = last.key).value
                      ELSE None

C8_Witness ==
    /\ last.op = "get"
    /\ Len(last.before) >= 2
    /\ last.before[1].key = last.key
    /\ last.ret = last.before[1].value
    /\ store = last.before

(***************************************************************************)
(* Claims about the Cache under concurrent callers                         *)
(***************************************************************************)
Finished(t) == threads[t].pc \in {"done", "KeyError", "StopIteration"}

\* the stores the puts of the threads in S leave when made one after the other, from d
RECURSIVE SequentialResults(_, _)
SequentialResults(S, d) ==
    IF S = {} THEN {d}
    ELSE UNION {SequentialResults(S \ {t},
                    Cache__setitem__(capacity, d, threads[t].key, threads[t].value).store)
                : t \in S}

\* C6: insert and evict are atomic for concurrent callers: no state another caller can
\* read holds more than capacity entries or a bulk eviction that removed only some of
\* its keys, and the final store is the result of some sequential order of the puts.
C6_AtomicInsertEvict ==
    /\ Len(store) <= capacity
    /\ \A t \in Threads :
          threads[t].pc \in {"loop", "del_victim"} =>
              threads[t].rounds \in {0, EvictCount(capacity)}
    /\ (\A t \in Threads : Finished(t)) =>
          /\ \A t \in Threads : threads[t].pc = "done"
          /\ store \in SequentialResults(Threads, store0)

(***************************************************************************)
(* Claims about the transfer semaphores                                    *)
(***************************************************************************)
Holders(name) == {t \in Tasks : tasks[t] = Holding(name)}

\* C7: the upload and the download semaphore each start with
\* max_concurrent_transmissions permits: the tasks holding either one never exceed
\* max_concurrent_transmissions, and exhausting the permits of one leaves every
\* permit of the other that its own holders do not use free to be acquired.
C7_IndependentSemaphores ==
    /\ \A name \in SemaphoreNames :
          Cardinality(Holders(name)) <= max_concurrent_transmissions
    /\ \A name \in SemaphoreNames : \A other \in SemaphoreNames \ {name} :
          (/\ semaphores[name] = 0
           /\ Cardinality(Holders(other)) < max_concurrent_transmissions) =>
              semaphores[other] = max_concurrent_transmissions - Cardinality(Holders(other))

C7_Witness ==
    /\ semaphores["save_file_semaphore"] = 0
    /\ \E t \in Tasks : tasks[t] = Waiting("save_file_semaphore")
    /\ Cardinality(Holders("save_file_semaphore")) = max_concurrent_transmissions
    /\ Cardinality(Holders("get_file_semaphore")) = 1
    /\ max_concurrent_transmissions = 2
    /\ semaphores["get_file_semaphore"] = 1

(***************************************************************************)
(* Claims about Client.__init__                                            *)
(***************************************************************************)
\* what the caller passed: a storage object, a session string that is not empty,
\* in_memory set, a mongodb config that is not empty
StorageGiven == args.storage # PyNone
SessionStringGiven == args.session_string \notin {PyNone, PyStr("")}
InMemoryAsked == args.in_memory = PyBool(TRUE)
MongoConfigGiven == args.mongodb \notin {PyNone, PyDict(0)}

\* C9: the constructor picks one storage backend by a fixed precedence: an explicit
\* storage object; else a session_string gives in-memory storage seeded with it; else
\* in_memory gives empty in-memory storage; else a mongodb config gives database
\* storage when the driver is available and empty in-memory storage with a warning
\* and no error when it is not; else file storage.
C9_StoragePrecedence ==
    client.built =>
        client.storage =
            CASE StorageGiven -> Backend("given", PyNone, FALSE)
              [] ~StorageGiven /\ SessionStringGiven ->
                    Backend("MemoryStorage", args.session_string, FALSE)
              [] ~StorageGiven /\ ~SessionStringGiven /\ InMemoryAsked ->
                    Backend("MemoryStorage", PyNone, FALSE)
              [] ~StorageGiven /\ ~SessionStringGiven /\ ~InMemoryAsked /\ MongoConfigGiven ->
                    IF args.pymongo_importable
                    THEN Backend("MongoStorage", PyNone, FALSE)
                    ELSE Backend("MemoryStorage", PyNone, TRUE)
              [] OTHER -> Backend("FileStorage", PyNone, FALSE)

C9_Witness ==
    /\ client.built
    /\ ~StorageGiven /\ ~SessionStringGiven /\ ~InMemoryAsked /\ MongoConfigGiven
    /\ ~args.pymongo_importable
    /\ client.storage = Backend("MemoryStorage", PyNone, TRUE)

\* what the caller supplied of the credentials
BotTokenGiven == args.bot_token \notin {PyNone, PyStr("")}
ApiIdSupplied == args.api_id \notin {PyNone, PyInt(0), PyStr("")}
ApiHashSupplied == args.api_hash # PyNone
ApiIdAsInt ==
    IF args.api_id.t = "int" THEN args.api_id
    ELSE PyInt(CHOOSE n \in 0..9 : <<args.api_id.s, n>> \in {<<"0", 0>>, <<"7", 7>>})

\* C10: after the constructor returns with a non-empty bot_token, api_id and api_hash
\* are both set; when either was not supplied both are the placeholder pair; when
\* both were supplied, or without a bot_token, the supplied values are kept (api_id as
\* int, None when falsy).
C10_PlaceholderCredentials ==
    client.built =>
        /\ BotTokenGiven => client.api_id # PyNone /\ client.api_hash # PyNone
        /\ (BotTokenGiven /\ ~(ApiIdSupplied /\ ApiHashSupplied)) =>
              /\ client.api_id = PyInt(123456)
              /\ client.api_hash = PyStr("0123456789abcdef0123456789abcdef")
        /\ (~BotTokenGiven \/ (ApiIdSupplied /\ ApiHashSupplied)) =>
              /\ client.api_id = IF ApiIdSupplied THEN ApiIdAsInt ELSE PyNone
              /\ client.api_hash = args.api_hash

C10_Witness ==
    /\ client.built
    /\ BotTokenGiven
    /\ args.api_id = PyStr("7")
    /\ args.api_hash = PyNone
    /\ client.api_id = PyInt(123456)

====
